---- MODULE Spec2Model ----
(***************************************************************************)
(* Model of todoist-recent-tagger: the webhook service (webhook/main.ts),  *)
(* the maintainer (cleanup-only sweep) and the combined add-and-remove     *)
(* sweep, all acting on one remote task store.  Every await on a store     *)
(* call is one step; the synchronous code between two awaits belongs to    *)
(* the step of the await that precedes it.                                 *)
(***************************************************************************)
EXTENDS Integers, Sequences, FiniteSets, TLC

VARIABLES env, clock, labels, tasks, server, wh, sw

vars == <<env, clock, labels, tasks, server, wh, sw>>

-----------------------------------------------------------------------------
(* Bounds of the model *)

MaxTicks == 2

\* Task ids are opaque strings, here in the order the store lists items
TaskOrder == <<"t1", "t2">>
TaskIds == {TaskOrder[i] : i \in 1..Len(TaskOrder)}
\* Requests the server handles at the same time
Webhooks == {"w1", "w2"}

-----------------------------------------------------------------------------
(* Program constants *)

RECENTLY_CREATED_LABEL == "recently created"
RECENTLY_UPDATED_LABEL == "recently updated"
RECENT_THRESHOLD_HOURS == 24
LOOKBACK_DAYS == 7
HourMs == 60 * 60 * 1000
DayMs == 24 * HourMs
SecondMs == 1 * 1000

RecencyNames == {RECENTLY_CREATED_LABEL, RECENTLY_UPDATED_LABEL}
OtherNames == {"work", "home"}
LabelNames == RecencyNames \cup OtherNames

-----------------------------------------------------------------------------
(* Sequences of label names, as the JavaScript array methods treat them *)

Range(s) == {s[i] : i \in 1..Len(s)}

Includes(s, x) == x \in Range(s)

\* Array.prototype.indexOf: the first position of x (1-based), 0 if absent
IndexOf(s, x) ==
  IF Includes(s, x) THEN CHOOSE i \in 1..Len(s) : s[i] = x /\ \A j \in 1..(i - 1) : s[j] # x
  ELSE 0

\* A slip: splice(index) without a delete count removes through the end
SpliceToEnd(s, i) == SubSeq(s, 1, i - 1)

\* Array.prototype.splice(index, 1) at a 1-based position
Splice(s, i) == [j \in 1..(Len(s) - 1) |-> IF j < i THEN s[j] ELSE s[j + 1]]

SelectSeqBy(s, S) == SelectSeq(s, LAMBDA x : x \in S)

Count(s, x) == Cardinality({i \in 1..Len(s) : s[i] = x})

\* The default comparator of Array.prototype.sort orders strings by their
\* UTF-16 code units: "home" < "recently created" < "recently updated" < "work"
StrRank(x) ==
  CASE x = "home" -> 1
    [] x = RECENTLY_CREATED_LABEL -> 2
    [] x = RECENTLY_UPDATED_LABEL -> 3
    [] x = "work" -> 4

RECURSIVE Insert(_, _)
Insert(x, s) ==
  IF s = <<>> THEN <<x>>
  ELSE IF StrRank(x) < StrRank(Head(s)) THEN <<x>> \o s
  ELSE <<Head(s)>> \o Insert(x, Tail(s))

RECURSIVE Sort(_)
Sort(s) == IF s = <<>> THEN <<>> ELSE Insert(Head(s), Sort(Tail(s)))

-----------------------------------------------------------------------------
(* Timestamps: the store gives ISO strings; new Date(...) parses them *)

Iso(ms) == [k |-> "iso", ms |-> ms]
MissingTime == [k |-> "missing", ms |-> 0]
GarbageTime == [k |-> "garbage", ms |-> 0]

\* a || b on timestamp strings: undefined, null and '' are falsy
OrElse(a, b) == IF a.k = "missing" THEN b ELSE a

InvalidDate == [nan |-> TRUE, time |-> 0]
NewDate(ts) == IF ts.k = "iso" THEN [nan |-> FALSE, time |-> ts.ms] ELSE InvalidDate

\* a >= b on Date objects: false when either is an Invalid Date (NaN)
DateGe(a, b) == ~a.nan /\ ~b.nan /\ a.time >= b.time

\* a.getTime() !== b.getTime(): NaN !== anything, NaN included
GetTimeNeq(a, b) == IF a.nan \/ b.nan THEN TRUE ELSE a.time # b.time

-----------------------------------------------------------------------------
(* The store at the start *)

T0 == 10 * DayMs

ThresholdMs == RECENT_THRESHOLD_HOURS * HourMs

\* Label lists an item may hold before the services first see it
InitLabelLists ==
  { <<>>,
    <<"work", "home">>,
    <<RECENTLY_CREATED_LABEL, "work">>,
    <<RECENTLY_CREATED_LABEL, "work", "home">>,
    <<"work", RECENTLY_UPDATED_LABEL, "home">>,
    <<RECENTLY_CREATED_LABEL, RECENTLY_UPDATED_LABEL>>,
    <<RECENTLY_CREATED_LABEL, "home", RECENTLY_CREATED_LABEL>> }

\* (addedAt, updatedAt) of an item, around the 24 hour threshold at T0
InitTimes ==
  { <<Iso(T0 - ThresholdMs + SecondMs), MissingTime>>,
    <<Iso(T0 - ThresholdMs + SecondMs), Iso(T0 - ThresholdMs + SecondMs)>>,
    <<Iso(T0 - 30 * HourMs), Iso(T0 - 30 * HourMs)>>,
    <<Iso(T0 - 30 * HourMs), Iso(T0 - HourMs)>>,
    <<Iso(T0 - 30 * HourMs), Iso(T0 - ThresholdMs + SecondMs)>>,
    <<Iso(T0 - 8 * DayMs), Iso(T0 - 25 * HourMs)>>,
    <<GarbageTime, MissingTime>>,
    <<Iso(T0 - 30 * HourMs), GarbageTime>> }

Task(id, times, ls) ==
  [id |-> id, addedAt |-> times[1], updatedAt |-> times[2], labels |-> ls]

\* The second item of a batch: stale, carrying both labels around another one
SecondTask ==
  Task("t2", <<Iso(T0 - 30 * HourMs), Iso(T0 - 26 * HourMs)>>,
       <<RECENTLY_UPDATED_LABEL, "work", RECENTLY_CREATED_LABEL>>)

\* Label records of the store, by name, in the order getLabels returns them
InitLabelStores ==
  { <<>>,
    <<RECENTLY_CREATED_LABEL>>,
    <<"work", RECENTLY_UPDATED_LABEL>>,
    <<"work", RECENTLY_CREATED_LABEL, "home", RECENTLY_UPDATED_LABEL>> }

-----------------------------------------------------------------------------
(* Store calls of the Todoist API client *)

\* A slip: the find compares the wrong field and never matches
FindLabelNever(ls, name) == FALSE

\* labels.find(label => label.name === name) !== undefined
FindLabel(ls, name) == Includes(ls, name)

\* api.addLabel({ name }): the store appends a label record
AddLabel(ls, name) == Append(ls, name)

\* api.updateTask(id, { labels }): the store replaces the item's label list
UpdateTask(ts, id, newLabels) == [ts EXCEPT ![id].labels = newLabels]

\* One entry of an invocation's log of store calls (ok: the call succeeded)
Call(op, id, ls, ok) == [op |-> op, id |-> id, labels |-> ls, ok |-> ok]

-----------------------------------------------------------------------------
(* webhook/main.ts: the server and one step per await of a request *)

NoIntent == <<>>
Intent(s) == <<s>>

\* !updateIntent || updateIntent === "item_updated"
QualifyingIntent(updateIntent) ==
  \/ updateIntent = NoIntent
  \/ updateIntent[1] = ""
  \/ updateIntent[1] = "item_updated"

Payloads ==
  [event_name : {"item:added", "item:deleted"}, has_event_data : {TRUE}, id : TaskIds,
   update_intent : {NoIntent}]
  \cup
  [event_name : {"item:updated"}, has_event_data : {TRUE}, id : TaskIds,
   update_intent : {NoIntent, Intent(""), Intent("item_updated"), Intent("item_completed")}]
  \cup
  [event_name : {"item:added"}, has_event_data : {FALSE}, id : {"t1"},
   update_intent : {NoIntent}]

NoPayload ==
  [event_name |-> "", has_event_data |-> FALSE, id |-> "t1", update_intent |-> NoIntent]

\* What a request is to handler(): its route, its signature header against
\* the HMAC of its body, whether its body is JSON, and the payload it holds
Requests ==
  [route : {"/health", "/other"}, signature : {"missing"}, json : {FALSE},
   payload : {NoPayload}]
  \cup
  [route : {"/webhook"}, signature : {"missing", "mismatch"}, json : {FALSE, TRUE},
   payload : {NoPayload}]
  \cup
  [route : {"/webhook"}, signature : {"match"}, json : {FALSE}, payload : {NoPayload}]
  \cup
  [route : {"/webhook"}, signature : {"missing", "mismatch"}, json : {TRUE},
   payload : {[event_name |-> "item:added", has_event_data |-> TRUE, id |-> "t1",
               update_intent |-> NoIntent]}]
  \cup
  [route : {"/webhook"}, signature : {"match"}, json : {TRUE}, payload : Payloads]

NoRequest ==
  [route |-> "", signature |-> "missing", json |-> FALSE, payload |-> NoPayload]

IdleWebhook ==
  [pc |-> "idle", req |-> NoRequest, status |-> 0, label |-> "", taskId |-> "t1",
   createdFound |-> FALSE, updatedFound |-> FALSE,
   currentLabels |-> <<>>, newLabels |-> <<>>, calls |-> <<>>]

\* return new Response(..., { status })
Respond(w, r, status) ==
  wh' = [wh EXCEPT ![w] = [r EXCEPT !.pc = "responded", !.status = status]]

\* A slip: any signature header is taken for a valid one
VerifySignaturePresent(req) == req.signature # "missing"

\* verifyWebhookSignature: actualSignature === signature
VerifyWebhookSignature(req) == req.signature = "match"

\* startServer: both environment variables are required, then the API
\* connection is tested with getLabels before the server listens
StartServer ==
  /\ server = "stopped"
  /\ server' = IF env.CLIENT_SECRET /\ env.TODOIST_TOKEN THEN "testing" ELSE "exited"
  /\ UNCHANGED <<env, clock, labels, tasks, wh, sw>>

TestConnection ==
  /\ server = "testing"
  /\ \E ok \in BOOLEAN : server' = IF ok THEN "listening" ELSE "exited"
  /\ UNCHANGED <<env, clock, labels, tasks, wh, sw>>

\* A slip: the update case adds the label of the other case
LabelForEventCreatedOnly(p) ==
  IF p.event_name = "item:added" THEN RECENTLY_CREATED_LABEL
  ELSE IF p.event_name = "item:updated" /\ QualifyingIntent(p.update_intent)
       THEN RECENTLY_CREATED_LABEL
  ELSE ""

\* handleWebhook: the label the switch on event_name adds, "" for none
LabelForEvent(p) ==
  IF p.event_name = "item:added" THEN RECENTLY_CREATED_LABEL
  ELSE IF p.event_name = "item:updated" /\ QualifyingIntent(p.update_intent)
       THEN RECENTLY_UPDATED_LABEL
  ELSE ""

\* handler, handleWebhook and addRecently...Label up to the first store call
Handle(w, req) ==
  /\ server = "listening"
  /\ wh[w].pc = "idle"
  /\ LET r == [IdleWebhook EXCEPT !.req = req, !.taskId = req.payload.id]
         p == req.payload
         toStore(name) ==
           IF env.TODOIST_TOKEN
           THEN wh' = [wh EXCEPT ![w] = [r EXCEPT !.pc = "getLabels", !.label = name]]
           ELSE Respond(w, r, 500)
     IN  IF req.route = "/health" THEN Respond(w, r, 200)
         ELSE IF req.route # "/webhook" THEN Respond(w, r, 404)
         ELSE IF req.signature = "missing" THEN Respond(w, r, 401)
         ELSE IF ~VerifyWebhookSignature(req) THEN Respond(w, r, 401)
         ELSE IF ~req.json THEN Respond(w, r, 400)
         ELSE IF ~p.has_event_data THEN Respond(w, r, 500)
         ELSE IF LabelForEvent(p) # "" THEN toStore(LabelForEvent(p))
         ELSE Respond(w, r, 200)
  /\ UNCHANGED <<env, clock, labels, tasks, server, sw>>

\* Any request arrives
Receive(w) == \E req \in Requests : Handle(w, req)

\* The requests that go on to the store and meet there: verified item events
\* that qualify, all about the first item
StoreRequests ==
  {req \in Requests :
     /\ req.route = "/webhook" /\ req.signature = "match" /\ req.json
     /\ req.payload.has_event_data
     /\ req.payload.event_name \in {"item:added", "item:updated"}
     /\ req.payload.update_intent = NoIntent
     /\ req.payload.id = TaskOrder[1]}

\* A request that goes on to the store arrives
ReceiveEvent(w) == \E req \in StoreRequests : Handle(w, req)

\* ensureLabelsExist: what follows the label fetch
AfterLabels(r) ==
  IF ~r.createdFound THEN "addCreatedLabel"
  ELSE IF ~r.updatedFound THEN "addUpdatedLabel"
  ELSE "getTask"

Called(r, call) == [r EXCEPT !.calls = Append(@, call)]

\* ensureLabelsExist: api.getLabels() and the two finds
WhGetLabels(w) ==
  /\ wh[w].pc = "getLabels"
  /\ \/ LET r == [Called(wh[w], Call("getLabels", "", <<>>, TRUE)) EXCEPT
                    !.createdFound = FindLabel(labels, RECENTLY_CREATED_LABEL),
                    !.updatedFound = FindLabel(labels, RECENTLY_UPDATED_LABEL)]
        IN  wh' = [wh EXCEPT ![w] = [r EXCEPT !.pc = AfterLabels(r)]]
     \/ Respond(w, Called(wh[w], Call("getLabels", "", <<>>, FALSE)), 200)
  /\ UNCHANGED <<env, clock, labels, tasks, server, sw>>

\* ensureLabelsExist: api.addLabel({ name: RECENTLY_CREATED_LABEL })
WhAddCreatedLabel(w) ==
  /\ wh[w].pc = "addCreatedLabel"
  /\ \/ /\ labels' = AddLabel(labels, RECENTLY_CREATED_LABEL)
        /\ LET r == [Called(wh[w], Call("addLabel", "", <<RECENTLY_CREATED_LABEL>>, TRUE))
                       EXCEPT !.createdFound = TRUE]
           IN  wh' = [wh EXCEPT ![w] = [r EXCEPT !.pc = AfterLabels(r)]]
     \/ /\ Respond(w, Called(wh[w], Call("addLabel", "", <<RECENTLY_CREATED_LABEL>>, FALSE)),
                   200)
        /\ UNCHANGED labels
  /\ UNCHANGED <<env, clock, tasks, server, sw>>

\* ensureLabelsExist: api.addLabel({ name: RECENTLY_UPDATED_LABEL })
WhAddUpdatedLabel(w) ==
  /\ wh[w].pc = "addUpdatedLabel"
  /\ \/ /\ labels' = AddLabel(labels, RECENTLY_UPDATED_LABEL)
        /\ LET r == [Called(wh[w], Call("addLabel", "", <<RECENTLY_UPDATED_LABEL>>, TRUE))
                       EXCEPT !.updatedFound = TRUE]
           IN  wh' = [wh EXCEPT ![w] = [r EXCEPT !.pc = AfterLabels(r)]]
     \/ /\ Respond(w, Called(wh[w], Call("addLabel", "", <<RECENTLY_UPDATED_LABEL>>, FALSE)),
                   200)
        /\ UNCHANGED labels
  /\ UNCHANGED <<env, clock, tasks, server, sw>>

\* A slip: the write holds the new label alone
AddedLabelsAlone(currentLabels, name) == <<name>>

\* A slip: the new label is put in front of the list
AddedLabelsInFront(currentLabels, name) == <<name>> \o currentLabels

\* A slip: both recency labels are added, whatever the event
AddedLabelsOfBothKinds(currentLabels, name) ==
  currentLabels \o <<RECENTLY_CREATED_LABEL, RECENTLY_UPDATED_LABEL>>

\* A slip: the label is spread into the new list twice
AddedLabelsTwice(currentLabels, name) == currentLabels \o <<name, name>>

\* addRecently...Label: [...currentLabels, label.name]
AddedLabels(currentLabels, name) == Append(currentLabels, name)

\* addRecently...Label: api.getTask(taskId) and the includes test
WhGetTask(w) ==
  /\ wh[w].pc = "getTask"
  /\ \/ LET r == [Called(wh[w], Call("getTask", wh[w].taskId, <<>>, TRUE)) EXCEPT
                    !.currentLabels = tasks[wh[w].taskId].labels]
        IN  IF ~Includes(r.currentLabels, r.label)
            THEN wh' = [wh EXCEPT ![w] =
                          [r EXCEPT !.pc = "updateTask",
                                    !.newLabels = AddedLabels(r.currentLabels, r.label)]]
            ELSE Respond(w, r, 200)
     \/ Respond(w, Called(wh[w], Call("getTask", wh[w].taskId, <<>>, FALSE)), 200)
  /\ UNCHANGED <<env, clock, labels, tasks, server, sw>>

\* addRecently...Label: api.updateTask(taskId, { labels: newLabels })
WhUpdateTask(w) ==
  /\ wh[w].pc = "updateTask"
  /\ \/ /\ tasks' = UpdateTask(tasks, wh[w].taskId, wh[w].newLabels)
        /\ Respond(w, Called(wh[w], Call("updateTask", wh[w].taskId, wh[w].newLabels, TRUE)),
                   200)
     \/ /\ Respond(w, Called(wh[w], Call("updateTask", wh[w].taskId, wh[w].newLabels, FALSE)),
                   200)
        /\ UNCHANGED tasks
  /\ UNCHANGED <<env, clock, labels, server, sw>>

\* The response is sent and the request's locals are gone
WhClose(w) ==
  /\ wh[w].pc = "responded"
  /\ wh' = [wh EXCEPT ![w] = IdleWebhook]
  /\ UNCHANGED <<env, clock, labels, tasks, server, sw>>

-----------------------------------------------------------------------------
(* The recency predicates of the two sweeps *)

\* new Date(now.getTime() - (RECENT_THRESHOLD_HOURS * 60 * 60 * 1000))
RecentThreshold(now) ==
  [nan |-> FALSE, time |-> now - (RECENT_THRESHOLD_HOURS * 60 * 60 * 1000)]

\* new Date(task.addedAt || '')
CreatedDate(task) == NewDate(OrElse(task.addedAt, MissingTime))

\* new Date(task.updatedAt || task.addedAt || '')
UpdatedDate(task) == NewDate(OrElse(task.updatedAt, OrElse(task.addedAt, MissingTime)))

\* A slip: > where the code has >=
IsRecentlyCreatedStrictly(task, recentThreshold) ==
  /\ ~CreatedDate(task).nan
  /\ CreatedDate(task).time > recentThreshold.time

\* createdDate >= recentThreshold
IsRecentlyCreated(task, recentThreshold) == DateGe(CreatedDate(task), recentThreshold)

\* A slip: the comparison with the creation time is left out
IsRecentlyUpdatedByAge(task, recentThreshold) ==
  DateGe(UpdatedDate(task), recentThreshold)

\* updatedDate >= recentThreshold && updatedDate.getTime() !== createdDate.getTime()
IsRecentlyUpdated(task, recentThreshold) ==
  /\ DateGe(UpdatedDate(task), recentThreshold)
  /\ GetTimeNeq(UpdatedDate(task), CreatedDate(task))

-----------------------------------------------------------------------------
(* Queries of the store *)

\* api.getTasks({ label }): the items whose label list holds the name
GetTasksByLabel(ts, name) ==
  SelectSeq([i \in 1..Len(TaskOrder) |-> ts[TaskOrder[i]]],
            LAMBDA t : Includes(t.labels, name))

\* api.getTasksByFilter({ query: "created after: -7 days" })
GetTasksByFilter(ts, today) ==
  SelectSeq([i \in 1..Len(TaskOrder) |-> ts[TaskOrder[i]]],
            LAMBDA t : t.addedAt.k = "iso" /\ t.addedAt.ms > today - LOOKBACK_DAYS * DayMs)

\* A slip: the candidates are kept in a list, not in a map by id
MapSetAppending(m, task) == Append(m, task)

\* Map.prototype.set(task.id, task): a known key keeps its place
MapSet(m, task) ==
  IF \E i \in 1..Len(m) : m[i].id = task.id
  THEN [i \in 1..Len(m) |-> IF m[i].id = task.id THEN task ELSE m[i]]
  ELSE Append(m, task)

RECURSIVE MapSetAll(_, _)
\* list.forEach(task => map.set(task.id, task))
MapSetAll(m, list) ==
  IF list = <<>> THEN m ELSE MapSetAll(MapSet(m, Head(list)), Tail(list))

-----------------------------------------------------------------------------
(* The sweeps: the maintainer (cleanup only) and the combined sweep *)

IdleSweep ==
  [pc |-> "idle", variant |-> "", now |-> 0,
   createdFound |-> FALSE, updatedFound |-> FALSE,
   createdTasks |-> <<>>, updatedTasks |-> <<>>,
   tasksToCheck |-> <<>>, tasksToUpdate |-> <<>>,
   updatedCount |-> 0, exitCode |-> 0, calls |-> <<>>]

\* A slip: the process ends with exit code 0 whatever happened
ExitZero(r, code) == sw' = [r EXCEPT !.pc = "exited", !.exitCode = 0]

\* The process ends: Deno.exit(1), or main returns and the exit code is 0
Exit(r, code) == sw' = [r EXCEPT !.pc = "exited", !.exitCode = code]

SwCalled(r, call) == [r EXCEPT !.calls = Append(@, call)]

\* The script is run: the token check at module load, then now = new Date()
SwStart ==
  /\ sw.pc = "idle"
  /\ \E v \in {"maintainer", "combined"} :
       LET r == [IdleSweep EXCEPT !.variant = v]
       IN  IF ~env.TODOIST_TOKEN THEN Exit(r, 1)
           ELSE sw' = [r EXCEPT !.pc = "getLabels", !.now = clock]
  /\ UNCHANGED <<env, clock, labels, tasks, server, wh>>

\* maintainer: currentlyHasCreatedLabel && !isRecentlyCreated, or the same of updated
MtShouldRemoveLabels(task, recentThreshold, createdFound, updatedFound) ==
  \/ /\ createdFound /\ Includes(task.labels, RECENTLY_CREATED_LABEL)
     /\ ~IsRecentlyCreated(task, recentThreshold)
  \/ /\ updatedFound /\ Includes(task.labels, RECENTLY_UPDATED_LABEL)
     /\ ~IsRecentlyUpdated(task, recentThreshold)

\* maintainer: the loop over tasksToCheck.values() that fills tasksToUpdate
MtDecide(r) ==
  SelectSeq(r.tasksToCheck,
            LAMBDA t : MtShouldRemoveLabels(t, RecentThreshold(r.now),
                                            r.createdFound, r.updatedFound))

\* maintainer: newLabels after the created label's removal, if it is due
MtAfterCreated(task, recentThreshold, createdFound) ==
  IF /\ createdFound /\ Includes(task.labels, RECENTLY_CREATED_LABEL)
     /\ ~IsRecentlyCreated(task, recentThreshold)
  THEN Splice(task.labels, IndexOf(task.labels, RECENTLY_CREATED_LABEL))
  ELSE task.labels

\* A slip: the maintainer also pushes a label that is due, as the combined
\* sweep does
MtNewLabelsAdding(task, recentThreshold, createdFound, updatedFound) ==
  LET l == MtAfterCreated(task, recentThreshold, createdFound)
      m == IF /\ updatedFound /\ Includes(l, RECENTLY_UPDATED_LABEL)
              /\ ~IsRecentlyUpdated(task, recentThreshold)
           THEN Splice(l, IndexOf(l, RECENTLY_UPDATED_LABEL))
           ELSE l
  IN  IF IsRecentlyUpdated(task, recentThreshold) /\ ~Includes(m, RECENTLY_UPDATED_LABEL)
      THEN Append(m, RECENTLY_UPDATED_LABEL)
      ELSE m

\* maintainer: newLabels as the update loop builds it
MtNewLabels(task, recentThreshold, createdFound, updatedFound) ==
  LET l == MtAfterCreated(task, recentThreshold, createdFound)
  IN  IF /\ updatedFound /\ Includes(l, RECENTLY_UPDATED_LABEL)
         /\ ~IsRecentlyUpdated(task, recentThreshold)
      THEN Splice(l, IndexOf(l, RECENTLY_UPDATED_LABEL))
      ELSE l

\* maintainer: labelsChanged
MtLabelsChanged(task, recentThreshold, createdFound, updatedFound) ==
  LET l == MtAfterCreated(task, recentThreshold, createdFound)
  IN  \/ /\ createdFound /\ Includes(task.labels, RECENTLY_CREATED_LABEL)
         /\ ~IsRecentlyCreated(task, recentThreshold)
      \/ /\ updatedFound /\ Includes(l, RECENTLY_UPDATED_LABEL)
         /\ ~IsRecentlyUpdated(task, recentThreshold)

\* Both sweeps: the update loop starts, or there is nothing to update
ToUpdateLoop(r) ==
  IF r.tasksToUpdate = <<>> THEN Exit(r, 0) ELSE sw' = [r EXCEPT !.pc = "update"]

\* Both sweeps: the next iteration of the update loop, or its end
NextIteration(r) == ToUpdateLoop([r EXCEPT !.tasksToUpdate = Tail(@)])

\* A slip: the failure of a write reaches the outer catch and ends the run
AfterFailedWriteAborts(r) == Exit(r, 1)

\* Both sweeps: catch (error) of the update loop logs and the loop goes on
AfterFailedWrite(r) == NextIteration(r)

\* maintainer: api.getLabels() and the two finds
MtGetLabels ==
  /\ sw.pc = "getLabels" /\ sw.variant = "maintainer"
  /\ \/ LET r == [SwCalled(sw, Call("getLabels", "", <<>>, TRUE)) EXCEPT
                    !.createdFound = FindLabel(labels, RECENTLY_CREATED_LABEL),
                    !.updatedFound = FindLabel(labels, RECENTLY_UPDATED_LABEL)]
        IN  IF ~r.createdFound /\ ~r.updatedFound THEN Exit(r, 0)
            ELSE sw' = [r EXCEPT !.pc = IF r.createdFound THEN "getCreatedTasks"
                                        ELSE "getUpdatedTasks"]
     \/ Exit(SwCalled(sw, Call("getLabels", "", <<>>, FALSE)), 1)
  /\ UNCHANGED <<env, clock, labels, tasks, server, wh>>

\* maintainer: api.getTasks({ label: RECENTLY_CREATED_LABEL })
MtGetCreatedTasks ==
  /\ sw.pc = "getCreatedTasks" /\ sw.variant = "maintainer"
  /\ \/ LET r == [SwCalled(sw, Call("getTasks", "", <<RECENTLY_CREATED_LABEL>>, TRUE)) EXCEPT
                    !.tasksToCheck =
                       MapSetAll(@, GetTasksByLabel(tasks, RECENTLY_CREATED_LABEL))]
        IN  IF r.updatedFound THEN sw' = [r EXCEPT !.pc = "getUpdatedTasks"]
            ELSE ToUpdateLoop([r EXCEPT !.tasksToUpdate = MtDecide(r)])
     \/ Exit(SwCalled(sw, Call("getTasks", "", <<RECENTLY_CREATED_LABEL>>, FALSE)), 1)
  /\ UNCHANGED <<env, clock, labels, tasks, server, wh>>

\* maintainer: api.getTasks({ label: RECENTLY_UPDATED_LABEL })
MtGetUpdatedTasks ==
  /\ sw.pc = "getUpdatedTasks" /\ sw.variant = "maintainer"
  /\ \/ LET r == [SwCalled(sw, Call("getTasks", "", <<RECENTLY_UPDATED_LABEL>>, TRUE)) EXCEPT
                    !.tasksToCheck =
                       MapSetAll(@, GetTasksByLabel(tasks, RECENTLY_UPDATED_LABEL))]
        IN  ToUpdateLoop([r EXCEPT !.tasksToUpdate = MtDecide(r)])
     \/ Exit(SwCalled(sw, Call("getTasks", "", <<RECENTLY_UPDATED_LABEL>>, FALSE)), 1)
  /\ UNCHANGED <<env, clock, labels, tasks, server, wh>>

\* maintainer: one iteration of the update loop up to its updateTask call
MtUpdate ==
  /\ sw.pc = "update" /\ sw.variant = "maintainer"
  /\ LET task == Head(sw.tasksToUpdate)
         th == RecentThreshold(sw.now)
         newLabels == MtNewLabels(task, th, sw.createdFound, sw.updatedFound)
     IN  IF MtLabelsChanged(task, th, sw.createdFound, sw.updatedFound)
         THEN \/ /\ tasks' = UpdateTask(tasks, task.id, newLabels)
                 /\ sw' = [SwCalled(sw, Call("updateTask", task.id, newLabels, TRUE)) EXCEPT
                             !.pc = "delay", !.updatedCount = @ + 1]
              \/ /\ AfterFailedWrite(SwCalled(sw, Call("updateTask", task.id, newLabels, FALSE)))
                 /\ UNCHANGED tasks
         ELSE /\ sw' = [sw EXCEPT !.pc = "delay"]
              /\ UNCHANGED tasks
  /\ UNCHANGED <<env, clock, labels, server, wh>>

\* Both sweeps: await new Promise(resolve => setTimeout(resolve, 50))
SwDelay ==
  /\ sw.pc = "delay"
  /\ NextIteration(SwCalled(sw, Call("delay", "", <<>>, TRUE)))
  /\ UNCHANGED <<env, clock, labels, tasks, server, wh>>

\* The process is gone; the scheduler may run the script again
SwReap ==
  /\ sw.pc = "exited"
  /\ sw' = IdleSweep
  /\ UNCHANGED <<env, clock, labels, tasks, server, wh>>

-----------------------------------------------------------------------------
(* The combined sweep *)

\* A slip: the label is pushed without the includes test
EditLabelUnguarded(newLabels, name, shouldHave) ==
  IF shouldHave THEN Append(newLabels, name)
  ELSE IF Includes(newLabels, name) THEN Splice(newLabels, IndexOf(newLabels, name))
  ELSE newLabels

\* combined: one label of newLabels is pushed, spliced out or left alone
EditLabel(newLabels, name, shouldHave) ==
  IF shouldHave /\ ~Includes(newLabels, name) THEN Append(newLabels, name)
  ELSE IF ~shouldHave /\ Includes(newLabels, name)
       THEN Splice(newLabels, IndexOf(newLabels, name))
  ELSE newLabels

\* A slip: the edit of the second label is left out
CbNewLabelsCreatedOnly(e) ==
  EditLabel(e.task.labels, RECENTLY_CREATED_LABEL, e.shouldHaveCreatedLabel)

\* combined: newLabels as the update loop builds it, before the sort
CbNewLabels(e) ==
  EditLabel(EditLabel(e.task.labels, RECENTLY_CREATED_LABEL, e.shouldHaveCreatedLabel),
            RECENTLY_UPDATED_LABEL, e.shouldHaveUpdatedLabel)

\* combined: JSON.stringify(newLabels.sort()) !== JSON.stringify((task.labels || []).sort())
CbLabelsChanged(e) == Sort(CbNewLabels(e)) # Sort(e.task.labels)

\* A slip: the item's own list is handed to updateTask
CbWrittenLabelsOfTask(e) == e.task.labels

\* combined: the list handed to updateTask, which sort() has sorted in place
CbWrittenLabels(e) == Sort(CbNewLabels(e))

\* combined: the entry of tasksToUpdate for a task
CbInfo(task, recentThreshold) ==
  [task |-> task,
   shouldHaveCreatedLabel |-> IsRecentlyCreated(task, recentThreshold),
   shouldHaveUpdatedLabel |-> IsRecentlyUpdated(task, recentThreshold),
   currentlyHasCreatedLabel |-> Includes(task.labels, RECENTLY_CREATED_LABEL),
   currentlyHasUpdatedLabel |-> Includes(task.labels, RECENTLY_UPDATED_LABEL)]

\* combined: only tasks that need changes are tracked
CbNeedsChange(e) ==
  \/ e.shouldHaveCreatedLabel # e.currentlyHasCreatedLabel
  \/ e.shouldHaveUpdatedLabel # e.currentlyHasUpdatedLabel

\* combined: recentTasks filtered for creation within the threshold
RecentCreatedTasks(recentTasks, recentThreshold) ==
  SelectSeq(recentTasks, LAMBDA t : DateGe(CreatedDate(t), recentThreshold))

\* combined: recentTasks filtered for modification within the threshold
RecentModifiedTasks(recentTasks, recentThreshold) ==
  SelectSeq(recentTasks,
            LAMBDA t : /\ t.updatedAt.k # "missing"
                       /\ DateGe(NewDate(t.updatedAt), recentThreshold)
                       /\ GetTimeNeq(NewDate(t.updatedAt), CreatedDate(t)))

\* combined: tasksToProcess, filled in the order of the four lists
TasksToProcess(r, recentTasks) ==
  MapSetAll(MapSetAll(MapSetAll(MapSetAll(<<>>, r.createdTasks), r.updatedTasks),
                      RecentCreatedTasks(recentTasks, RecentThreshold(r.now))),
            RecentModifiedTasks(recentTasks, RecentThreshold(r.now)))

\* combined: the loop over tasksToProcess.values() that fills tasksToUpdate
CbDecide(r) ==
  SelectSeq([i \in 1..Len(r.tasksToCheck) |->
               CbInfo(r.tasksToCheck[i], RecentThreshold(r.now))],
            CbNeedsChange)

\* combined: what follows the label fetch
CbAfterLabels(r) ==
  IF ~r.createdFound THEN "addCreatedLabel"
  ELSE IF ~r.updatedFound THEN "addUpdatedLabel"
  ELSE "getCreatedTasks"

\* combined: api.getLabels() and the two finds
CbGetLabels ==
  /\ sw.pc = "getLabels" /\ sw.variant = "combined"
  /\ \/ LET r == [SwCalled(sw, Call("getLabels", "", <<>>, TRUE)) EXCEPT
                    !.createdFound = FindLabel(labels, RECENTLY_CREATED_LABEL),
                    !.updatedFound = FindLabel(labels, RECENTLY_UPDATED_LABEL)]
        IN  sw' = [r EXCEPT !.pc = CbAfterLabels(r)]
     \/ Exit(SwCalled(sw, Call("getLabels", "", <<>>, FALSE)), 1)
  /\ UNCHANGED <<env, clock, labels, tasks, server, wh>>

\* combined: api.addLabel({ name: RECENTLY_CREATED_LABEL })
CbAddCreatedLabel ==
  /\ sw.pc = "addCreatedLabel"
  /\ \/ /\ labels' = AddLabel(labels, RECENTLY_CREATED_LABEL)
        /\ LET r == [SwCalled(sw, Call("addLabel", "", <<RECENTLY_CREATED_LABEL>>, TRUE))
                       EXCEPT !.createdFound = TRUE]
           IN  sw' = [r EXCEPT !.pc = CbAfterLabels(r)]
     \/ /\ Exit(SwCalled(sw, Call("addLabel", "", <<RECENTLY_CREATED_LABEL>>, FALSE)), 1)
        /\ UNCHANGED labels
  /\ UNCHANGED <<env, clock, tasks, server, wh>>

\* combined: api.addLabel({ name: RECENTLY_UPDATED_LABEL })
CbAddUpdatedLabel ==
  /\ sw.pc = "addUpdatedLabel"
  /\ \/ /\ labels' = AddLabel(labels, RECENTLY_UPDATED_LABEL)
        /\ LET r == [SwCalled(sw, Call("addLabel", "", <<RECENTLY_UPDATED_LABEL>>, TRUE))
                       EXCEPT !.updatedFound = TRUE]
           IN  sw' = [r EXCEPT !.pc = CbAfterLabels(r)]
     \/ /\ Exit(SwCalled(sw, Call("addLabel", "", <<RECENTLY_UPDATED_LABEL>>, FALSE)), 1)
        /\ UNCHANGED labels
  /\ UNCHANGED <<env, clock, tasks, server, wh>>

\* combined: api.getTasks({ label: RECENTLY_CREATED_LABEL })
CbGetCreatedTasks ==
  /\ sw.pc = "getCreatedTasks" /\ sw.variant = "combined"
  /\ \/ sw' = [SwCalled(sw, Call("getTasks", "", <<RECENTLY_CREATED_LABEL>>, TRUE)) EXCEPT
                 !.pc = "getUpdatedTasks",
                 !.createdTasks = GetTasksByLabel(tasks, RECENTLY_CREATED_LABEL)]
     \/ Exit(SwCalled(sw, Call("getTasks", "", <<RECENTLY_CREATED_LABEL>>, FALSE)), 1)
  /\ UNCHANGED <<env, clock, labels, tasks, server, wh>>

\* combined: api.getTasks({ label: RECENTLY_UPDATED_LABEL })
CbGetUpdatedTasks ==
  /\ sw.pc = "getUpdatedTasks" /\ sw.variant = "combined"
  /\ \/ sw' = [SwCalled(sw, Call("getTasks", "", <<RECENTLY_UPDATED_LABEL>>, TRUE)) EXCEPT
                 !.pc = "getRecentTasks",
                 !.updatedTasks = GetTasksByLabel(tasks, RECENTLY_UPDATED_LABEL)]
     \/ Exit(SwCalled(sw, Call("getTasks", "", <<RECENTLY_UPDATED_LABEL>>, FALSE)), 1)
  /\ UNCHANGED <<env, clock, labels, tasks, server, wh>>

\* combined: api.getTasksByFilter(...), the two filters, the map and the decisions
CbGetRecentTasks ==
  /\ sw.pc = "getRecentTasks"
  /\ \/ LET r == [SwCalled(sw, Call("getTasksByFilter", "", <<>>, TRUE)) EXCEPT
                    !.tasksToCheck = TasksToProcess(sw, GetTasksByFilter(tasks, clock))]
        IN  ToUpdateLoop([r EXCEPT !.tasksToUpdate = CbDecide(r)])
     \/ Exit(SwCalled(sw, Call("getTasksByFilter", "", <<>>, FALSE)), 1)
  /\ UNCHANGED <<env, clock, labels, tasks, server, wh>>

\* combined: one iteration of the update loop up to its updateTask call
CbUpdate ==
  /\ sw.pc = "update" /\ sw.variant = "combined"
  /\ LET e == Head(sw.tasksToUpdate)
     IN  IF CbLabelsChanged(e)
         THEN \/ /\ tasks' = UpdateTask(tasks, e.task.id, CbWrittenLabels(e))
                 /\ sw' = [SwCalled(sw, Call("updateTask", e.task.id, CbWrittenLabels(e), TRUE))
                             EXCEPT !.pc = "delay", !.updatedCount = @ + 1]
              \/ /\ AfterFailedWrite(SwCalled(sw, Call("updateTask", e.task.id,
                                                       CbWrittenLabels(e), FALSE)))
                 /\ UNCHANGED tasks
         ELSE /\ sw' = [sw EXCEPT !.pc = "delay"]
              /\ UNCHANGED tasks
  /\ UNCHANGED <<env, clock, labels, server, wh>>

-----------------------------------------------------------------------------
(* Time, and the whole system *)

\* A second passes
Tick ==
  /\ clock < T0 + MaxTicks * SecondMs
  /\ clock' = clock + SecondMs
  /\ UNCHANGED <<env, labels, tasks, server, wh, sw>>

\* The server has started or given up, no request is being handled and no
\* sweep is running
Quiet ==
  /\ server \in {"listening", "exited"}
  /\ sw.pc = "idle"
  /\ \A w \in Webhooks : wh[w].pc = "idle"

\* Any stored item and label set, the services not yet started
InitWide ==
  /\ env \in [TODOIST_TOKEN : BOOLEAN, CLIENT_SECRET : BOOLEAN]
  /\ clock = T0
  /\ labels \in InitLabelStores
  /\ \E times \in InitTimes, ls \in InitLabelLists :
       tasks = [id \in TaskIds |-> IF id = "t1" THEN Task("t1", times, ls) ELSE SecondTask]
  /\ server = "stopped"
  /\ wh = [w \in Webhooks |-> IdleWebhook]
  /\ sw = IdleSweep

\* A configured deployment, its first item new or a day old
Init ==
  /\ env = [TODOIST_TOKEN |-> TRUE, CLIENT_SECRET |-> TRUE]
  /\ clock = T0
  /\ labels \in {<<>>, <<RECENTLY_CREATED_LABEL, RECENTLY_UPDATED_LABEL>>}
  /\ \E t1 \in {Task("t1", <<Iso(T0 - ThresholdMs + SecondMs), MissingTime>>, <<>>),
                 Task("t1", <<Iso(T0 - 30 * HourMs), Iso(T0 - HourMs)>>,
                      <<RECENTLY_CREATED_LABEL, "work">>)} :
       tasks = [id \in TaskIds |-> IF id = "t1" THEN t1 ELSE SecondTask]
  /\ server = "stopped"
  /\ wh = [w \in Webhooks |-> IdleWebhook]
  /\ sw = IdleSweep

\* The steps of a request after its arrival
WebhookSteps(w) ==
  \/ WhGetLabels(w)
  \/ WhAddCreatedLabel(w)
  \/ WhAddUpdatedLabel(w)
  \/ WhGetTask(w)
  \/ WhUpdateTask(w)

\* The steps of a sweep
Sweep ==
  \/ SwStart
  \/ MtGetLabels
  \/ MtGetCreatedTasks
  \/ MtGetUpdatedTasks
  \/ MtUpdate
  \/ CbGetLabels
  \/ CbAddCreatedLabel
  \/ CbAddUpdatedLabel
  \/ CbGetCreatedTasks
  \/ CbGetUpdatedTasks
  \/ CbGetRecentTasks
  \/ CbUpdate
  \/ SwDelay

\* Two requests and a sweep run at the same time, interleaved at their store
\* calls; the request slots are alike, so "w2" is taken after "w1"
Next ==
  \/ StartServer
  \/ TestConnection
  \/ ReceiveEvent("w1")
  \/ wh["w1"].pc # "idle" /\ ReceiveEvent("w2")
  \/ \E w \in Webhooks : WebhookSteps(w)
  \/ Sweep

Spec == Init /\ [][Next]_vars

\* Another client of the store (the user's own app) puts a label on an item;
\* the store serves it between any two calls of the services
ExternalAddLabel(id) ==
  /\ ~Includes(tasks[id].labels, "home")
  /\ tasks' = UpdateTask(tasks, id, Append(tasks[id].labels, "home"))
  /\ UNCHANGED <<env, clock, labels, server, wh, sw>>

\* One request after another and a sweep, interleaved with each other and
\* with the other client's writes
NextShared ==
  \/ StartServer
  \/ TestConnection
  \/ ReceiveEvent("w1")
  \/ WebhookSteps("w1")
  \/ WhClose("w1")
  \/ Sweep
  \/ \E id \in TaskIds : ExternalAddLabel(id)

SpecShared == Init /\ [][NextShared]_vars

\* The list of an item that came to the store with a label twice
DuplicateLabels == <<RECENTLY_CREATED_LABEL, "home", RECENTLY_CREATED_LABEL>>

\* A configured deployment whose first item, new or a day old, holds
\* "recently created" twice
InitDuplicates ==
  /\ env = [TODOIST_TOKEN |-> TRUE, CLIENT_SECRET |-> TRUE]
  /\ clock = T0
  /\ labels \in {<<>>, <<RECENTLY_CREATED_LABEL, RECENTLY_UPDATED_LABEL>>}
  /\ \E times \in {<<Iso(T0 - ThresholdMs + SecondMs), MissingTime>>,
                     <<Iso(T0 - 30 * HourMs), Iso(T0 - HourMs)>>} :
       tasks = [id \in TaskIds |-> IF id = "t1" THEN Task("t1", times, DuplicateLabels)
                                    ELSE SecondTask]
  /\ server = "stopped"
  /\ wh = [w \in Webhooks |-> IdleWebhook]
  /\ sw = IdleSweep

SpecDuplicates == InitDuplicates /\ [][Next]_vars

\* One invocation at a time: a request or a sweep starts only when all is quiet
NextAlone ==
  \/ StartServer
  \/ TestConnection
  \/ Quiet /\ Receive("w1")
  \/ WhGetLabels("w1")
  \/ WhAddCreatedLabel("w1")
  \/ WhAddUpdatedLabel("w1")
  \/ WhGetTask("w1")
  \/ WhUpdateTask("w1")
  \/ WhClose("w1")
  \/ Quiet /\ SwStart
  \/ MtGetLabels
  \/ MtGetCreatedTasks
  \/ MtGetUpdatedTasks
  \/ MtUpdate
  \/ CbGetLabels
  \/ CbAddCreatedLabel
  \/ CbAddUpdatedLabel
  \/ CbGetCreatedTasks
  \/ CbGetUpdatedTasks
  \/ CbGetRecentTasks
  \/ CbUpdate
  \/ SwDelay
  \/ SwReap
  \/ Quiet /\ Tick

SpecAlone == InitWide /\ [][NextAlone]_vars

\* Any stored item and label set, the token configured, no event to come
InitSweeps == InitWide /\ env.TODOIST_TOKEN

\* The scheduler runs the sweep script again and again, each run to its end
SweepRuns ==
  \/ Sweep
  \/ SwReap

NextSweeps ==
  \/ SweepRuns
  \/ Tick

\* A store call of the sweep throws in this step
StoreCallFails ==
  /\ Len(sw'.calls) = Len(sw.calls) + 1
  /\ ~sw'.calls[Len(sw'.calls)].ok

\* Sweeps keep being invoked and run on, and from some point on the store
\* calls succeed
SpecSweeps ==
  /\ InitSweeps
  /\ [][NextSweeps]_vars
  /\ WF_vars(SweepRuns)
  /\ <>[][~StoreCallFails]_vars

-----------------------------------------------------------------------------
(* Properties *)

\* The last store call of a request or sweep succeeded and was op
LastCall(r, op) ==
  /\ r.calls # <<>>
  /\ r.calls[Len(r.calls)].op = op
  /\ r.calls[Len(r.calls)].ok

\* Every store call of a request or sweep succeeded
AllOk(r) == \A i \in 1..Len(r.calls) : r.calls[i].ok

\* Request w writes an item's label list in this step, and the store takes it
WebhookWrites(w) ==
  /\ wh[w].pc = "updateTask"
  /\ wh'[w].pc = "responded"
  /\ LastCall(wh'[w], "updateTask")

\* The sweep writes an item's label list in this step, and the store takes it
SweepWrites ==
  /\ sw.pc = "update"
  /\ Len(sw'.calls) = Len(sw.calls) + 1
  /\ LastCall(sw', "updateTask")

\* C1 as stated: under any interleaving of requests and sweeps, a label list
\* written by the webhook path never makes a label that is present in the
\* store's current list of the item absent.
WebhookWriteRemovesNothing ==
  [][\A w \in Webhooks :
       WebhookWrites(w) =>
         Range(tasks[wh[w].taskId].labels) \subseteq Range(tasks'[wh[w].taskId].labels)]_vars

\* C1 (amended): under any interleaving of requests and sweeps, a label list
\* written by the webhook path holds every label of the list the request
\* fetched, as often as there, so a label it makes absent was put on the item
\* by another writer after the fetch; and a label of an item goes from present
\* to absent only in a step that writes the item's list.
WebhookWriteKeepsFetchedLabels ==
  [][
      /\ \A w \in Webhooks :
          WebhookWrites(w) =>
            /\ \A l \in LabelNames :
                 Count(tasks'[wh[w].taskId].labels, l) >= Count(wh[w].currentLabels, l)
            /\ \A l \in Range(tasks[wh[w].taskId].labels) :
                 l \notin Range(tasks'[wh[w].taskId].labels)
                   => l \notin Range(wh[w].currentLabels)
      /\ \A id \in TaskIds :
          ~(Range(tasks[id].labels) \subseteq Range(tasks'[id].labels))
            => \/ SweepWrites
               \/ \E w \in Webhooks : WebhookWrites(w) /\ wh[w].taskId = id
    ]_vars

\* Two requests for one item have both written, one of them onto a list that
\* held labels when it was fetched
TwoWebhooksWrote ==
  /\ \A w \in Webhooks : wh[w].pc = "responded" /\ LastCall(wh[w], "updateTask")
  /\ wh["w1"].taskId = wh["w2"].taskId
  /\ \E w \in Webhooks : wh[w].currentLabels # <<>>

-----------------------------------------------------------------------------
(* The Recency Decision, in terms of instants *)

\* The creation instant parses and lies at most 24 hours before now
WantCreated(task, now) ==
  /\ task.addedAt.k = "iso"
  /\ now - task.addedAt.ms <= ThresholdMs

\* The modification instant parses, differs from the creation instant and lies
\* at most 24 hours before now
WantUpdated(task, now) ==
  /\ task.updatedAt.k = "iso"
  /\ ~(task.addedAt.k = "iso" /\ task.addedAt.ms = task.updatedAt.ms)
  /\ now - task.updatedAt.ms <= ThresholdMs

\* The sweep has gathered its items and taken its decisions
SweepDecided == sw.pc \in {"update", "delay", "exited"}

\* The items the sweep gathered, as it fetched them
Checked == Range(sw.tasksToCheck)

\* The entries of the combined sweep still waiting in its update loop
Queued == IF sw.variant = "combined" THEN Range(sw.tasksToUpdate) ELSE {}

\* C2 as stated: isRecentlyCreated is true iff now - creationInstant <= 24h,
\* and it is false exactly at and beyond the boundary of 24h.
CreatedFalseAtBoundary ==
  SweepDecided =>
    \A t \in Checked :
      t.addedAt.k = "iso" =>
        /\ IsRecentlyCreated(t, RecentThreshold(sw.now))
              <=> sw.now - t.addedAt.ms <= ThresholdMs
        /\ sw.now - t.addedAt.ms >= ThresholdMs
              => ~IsRecentlyCreated(t, RecentThreshold(sw.now))

\* C2 (amended): for every item a sweep evaluates, isRecentlyCreated is true
\* iff the creation instant parses and now - creationInstant <= 24h: true at
\* 24h - 1s and at exactly 24h, false at 24h + 1s.
CreatedTrueUpToBoundary ==
  SweepDecided =>
    /\ \A t \in Checked :
         /\ IsRecentlyCreated(t, RecentThreshold(sw.now)) <=> WantCreated(t, sw.now)
         /\ t.addedAt.k = "iso" /\ sw.now - t.addedAt.ms = ThresholdMs - SecondMs
              => IsRecentlyCreated(t, RecentThreshold(sw.now))
         /\ t.addedAt.k = "iso" /\ sw.now - t.addedAt.ms = ThresholdMs
              => IsRecentlyCreated(t, RecentThreshold(sw.now))
         /\ t.addedAt.k = "iso" /\ sw.now - t.addedAt.ms = ThresholdMs + SecondMs
              => ~IsRecentlyCreated(t, RecentThreshold(sw.now))
    /\ \A e \in Queued : e.shouldHaveCreatedLabel <=> WantCreated(e.task, sw.now)

\* The combined sweep met an unlabelled item created exactly 24 hours before
\* its now, and has put "recently created" on it
LabelledAtBoundary ==
  /\ sw.variant = "combined"
  /\ sw.pc = "delay"
  /\ LastCall(sw, "updateTask")
  /\ \E t \in Checked :
       /\ t.id = sw.calls[Len(sw.calls)].id
       /\ t.addedAt.k = "iso"
       /\ sw.now - t.addedAt.ms = ThresholdMs
       /\ ~Includes(t.labels, RECENTLY_CREATED_LABEL)
       /\ Includes(tasks[t.id].labels, RECENTLY_CREATED_LABEL)

\* C3: for every item a sweep evaluates, isRecentlyUpdated is false whenever
\* the modification instant equals the creation instant or is absent, however
\* recent it is; otherwise it is true iff now - modificationInstant <= 24h.
UpdatedDecision ==
  SweepDecided =>
    /\ \A t \in Checked :
         /\ t.updatedAt.k = "missing" => ~IsRecentlyUpdated(t, RecentThreshold(sw.now))
         /\ t.updatedAt = t.addedAt => ~IsRecentlyUpdated(t, RecentThreshold(sw.now))
         /\ t.updatedAt.k = "iso" /\ t.updatedAt # t.addedAt
              => (IsRecentlyUpdated(t, RecentThreshold(sw.now))
                    <=> sw.now - t.updatedAt.ms <= ThresholdMs)
         /\ IsRecentlyUpdated(t, RecentThreshold(sw.now)) <=> WantUpdated(t, sw.now)
    /\ \A e \in Queued : e.shouldHaveUpdatedLabel <=> WantUpdated(e.task, sw.now)

\* A sweep met an item that bears "recently updated" and whose modification
\* instant, inside the last 24 hours, is its creation instant, and has taken
\* the label off
UnmodifiedItemUnlabelled ==
  /\ sw.pc = "delay"
  /\ LastCall(sw, "updateTask")
  /\ \E t \in Checked :
       /\ t.id = sw.calls[Len(sw.calls)].id
       /\ t.updatedAt.k = "iso"
       /\ t.updatedAt = t.addedAt
       /\ sw.now - t.updatedAt.ms <= ThresholdMs
       /\ Includes(t.labels, RECENTLY_UPDATED_LABEL)
       /\ ~Includes(tasks[t.id].labels, RECENTLY_UPDATED_LABEL)

\* The edit of the maintainer applied to a list in place of the item's own
MtEdit(task, l) ==
  MtNewLabels([task EXCEPT !.labels = l], RecentThreshold(sw.now),
              sw.createdFound, sw.updatedFound)

\* The two edits of the combined sweep applied to a list in place of the item's own
CbEdit(e, l) == CbNewLabels([e EXCEPT !.task.labels = l])

\* The list the update loop of a sweep is about to edit
ListsInEdit ==
  IF sw.pc # "update" THEN {}
  ELSE IF sw.variant = "maintainer" THEN {Head(sw.tasksToUpdate).labels}
  ELSE {Head(sw.tasksToUpdate).task.labels}

\* C4 as stated: the label edit is idempotent for every label list, lists
\* that hold a recency name more than once included, and every (name,
\* present): the edit applied twice gives the list the edit applied once gives.
EditIdempotentOnAnyList ==
  /\ \A l \in ListsInEdit, name \in RecencyNames, present \in BOOLEAN :
       EditLabel(EditLabel(l, name, present), name, present) = EditLabel(l, name, present)
  /\ sw.pc = "update" /\ sw.variant = "maintainer" =>
       LET task == Head(sw.tasksToUpdate)
       IN  MtEdit(task, MtEdit(task, task.labels)) = MtEdit(task, task.labels)
  /\ sw.pc = "update" /\ sw.variant = "combined" =>
       LET e == Head(sw.tasksToUpdate)
       IN  CbEdit(e, CbEdit(e, e.task.labels)) = CbEdit(e, e.task.labels)

\* C4 (amended): the label edit is idempotent for every (name, present) when
\* present is true or the list holds the name at most once: the edit applied
\* twice gives the list the edit applied once gives.  (On a list that holds
\* the name more than once, each removal takes one more occurrence away.)
EditIdempotentWithoutDuplicates ==
  /\ \A l \in ListsInEdit, name \in RecencyNames, present \in BOOLEAN :
       present \/ Count(l, name) <= 1 =>
         EditLabel(EditLabel(l, name, present), name, present) = EditLabel(l, name, present)
  /\ sw.pc = "update" /\ sw.variant = "maintainer" =>
       LET task == Head(sw.tasksToUpdate)
       IN  (\A name \in RecencyNames : Count(task.labels, name) <= 1) =>
             MtEdit(task, MtEdit(task, task.labels)) = MtEdit(task, task.labels)
  /\ sw.pc = "update" /\ sw.variant = "combined" =>
       LET e == Head(sw.tasksToUpdate)
       IN  /\ e.shouldHaveCreatedLabel \/ Count(e.task.labels, RECENTLY_CREATED_LABEL) <= 1
           /\ e.shouldHaveUpdatedLabel \/ Count(e.task.labels, RECENTLY_UPDATED_LABEL) <= 1
           => CbEdit(e, CbEdit(e, e.task.labels)) = CbEdit(e, e.task.labels)

\* The combined sweep is about to edit a list that holds each recency name at
\* most once, taking one label off and putting the other on
EditingBothLabels ==
  /\ sw.pc = "update" /\ sw.variant = "combined"
  /\ LET e == Head(sw.tasksToUpdate)
     IN  /\ \A name \in RecencyNames : Count(e.task.labels, name) <= 1
         /\ e.currentlyHasCreatedLabel /\ ~e.shouldHaveCreatedLabel
         /\ ~e.currentlyHasUpdatedLabel /\ e.shouldHaveUpdatedLabel
         /\ ~Includes(CbEdit(e, e.task.labels), RECENTLY_CREATED_LABEL)
         /\ Includes(CbEdit(e, e.task.labels), RECENTLY_UPDATED_LABEL)

\* C5: the label list that a sweep (cleanup-only or add-and-remove) or the
\* webhook writes holds exactly the non-recency label names of the list it
\* read, in the same relative order.
OtherLabelsKeptInOrder ==
  /\ \A i \in 1..Len(sw.calls) :
       sw.calls[i].op = "updateTask" =>
         \A t \in Checked :
           t.id = sw.calls[i].id =>
             SelectSeqBy(sw.calls[i].labels, OtherNames) = SelectSeqBy(t.labels, OtherNames)
  /\ \A w \in Webhooks :
       \A i \in 1..Len(wh[w].calls) :
         wh[w].calls[i].op = "updateTask" =>
           SelectSeqBy(wh[w].calls[i].labels, OtherNames)
             = SelectSeqBy(wh[w].currentLabels, OtherNames)

\* A sweep has run to its end with every store call succeeding
SweepCompleted(variant) ==
  /\ sw.variant = variant
  /\ sw.pc = "exited"
  /\ sw.exitCode = 0
  /\ AllOk(sw)

\* A request has fetched its item and been answered, every store call succeeding
WebhookCompleted(w) ==
  /\ wh[w].pc = "responded"
  /\ AllOk(wh[w])
  /\ \E i \in 1..Len(wh[w].calls) : wh[w].calls[i].op = "getTask"

\* The number of times a recency label is due on an item
Due(wanted) == IF wanted THEN 1 ELSE 0

VerifiedEvent(w) ==
  /\ wh[w].pc # "idle"
  /\ wh[w].req.route = "/webhook"
  /\ wh[w].req.signature = "match"
  /\ wh[w].req.json
  /\ wh[w].req.payload.has_event_data

\* The store calls of request w that hand a label list to updateTask
WebhookUpdates(w) == {i \in 1..Len(wh[w].calls) : wh[w].calls[i].op = "updateTask"}

\* C7: handling an item:added event for an item whose freshly fetched label
\* list L does not hold "recently created", with all store calls succeeding,
\* leaves the item's list equal to L with "recently created" appended exactly
\* once (["recently created"] for L = []); if L holds it, no write is issued.
AddedEventAppendsCreated ==
  \A w \in Webhooks :
    /\ VerifiedEvent(w)
    /\ wh[w].req.payload.event_name = "item:added"
    /\ WebhookCompleted(w)
    => IF ~Includes(wh[w].currentLabels, RECENTLY_CREATED_LABEL)
       THEN /\ LastCall(wh[w], "updateTask")
            /\ Cardinality(WebhookUpdates(w)) = 1
            /\ tasks[wh[w].taskId].labels
                 = wh[w].currentLabels \o <<RECENTLY_CREATED_LABEL>>
            /\ Count(tasks[wh[w].taskId].labels, RECENTLY_CREATED_LABEL) = 1
            /\ wh[w].currentLabels = <<>>
                 => tasks[wh[w].taskId].labels = <<RECENTLY_CREATED_LABEL>>
       ELSE /\ WebhookUpdates(w) = {}
            /\ tasks[wh[w].taskId].labels = wh[w].currentLabels

\* An item:added event found its item holding two other labels and left it
\* with "recently created" after them
CreatedAppendedAfterOthers ==
  /\ VerifiedEvent("w1")
  /\ wh["w1"].req.payload.event_name = "item:added"
  /\ WebhookCompleted("w1")
  /\ wh["w1"].currentLabels = <<"work", "home">>
  /\ tasks[wh["w1"].taskId].labels = <<"work", "home", RECENTLY_CREATED_LABEL>>

\* The items a sweep handed to updateTask, as it fetched them
SweepUpdated(i) == {t \in Checked : t.id = sw.calls[i].id}

\* C8: when a sweep processes an item created more than 24h ago, never
\* updated since creation, whose label list holds "recently created" (once)
\* plus other labels, it writes the list with only "recently created" removed.
StaleCreatedAloneRemoved ==
  \A i \in 1..Len(sw.calls) :
    sw.calls[i].op = "updateTask" =>
      \A t \in SweepUpdated(i) :
        /\ t.addedAt.k = "iso"
        /\ sw.now - t.addedAt.ms > ThresholdMs
        /\ t.updatedAt.k = "missing" \/ t.updatedAt = t.addedAt
        /\ Count(t.labels, RECENTLY_CREATED_LABEL) = 1
        /\ ~Includes(t.labels, RECENTLY_UPDATED_LABEL)
        /\ Len(t.labels) > 1
        => sw.calls[i].labels
             = SelectSeq(t.labels, LAMBDA x : x # RECENTLY_CREATED_LABEL)

\* The update intent of the request of w is "item_updated" or absent
IntentUpdatedOrAbsent(w) ==
  wh[w].req.payload.update_intent \in {NoIntent, Intent("item_updated")}

\* C9: handling an item:updated event whose update intent is "item_updated"
\* or absent adds only "recently updated" to the item: the written list is
\* the fetched list plus "recently updated", and "recently created" is
\* neither added nor removed, whatever the item's creation time.
UpdatedEventAddsOnlyUpdated ==
  \A w \in Webhooks :
    /\ VerifiedEvent(w)
    /\ wh[w].req.payload.event_name = "item:updated"
    /\ IntentUpdatedOrAbsent(w)
    => /\ wh[w].label = RECENTLY_UPDATED_LABEL
       /\ wh[w].pc = "responded" => wh[w].calls # <<>>
       /\ \A i \in WebhookUpdates(w) :
            /\ wh[w].calls[i].labels = wh[w].currentLabels \o <<RECENTLY_UPDATED_LABEL>>
            /\ Count(wh[w].calls[i].labels, RECENTLY_CREATED_LABEL)
                 = Count(wh[w].currentLabels, RECENTLY_CREATED_LABEL)
       /\ WebhookCompleted(w) =>
            /\ Includes(wh[w].currentLabels, RECENTLY_UPDATED_LABEL) <=> WebhookUpdates(w) = {}
            /\ Includes(tasks[wh[w].taskId].labels, RECENTLY_UPDATED_LABEL)
            /\ Count(tasks[wh[w].taskId].labels, RECENTLY_CREATED_LABEL)
                 = Count(wh[w].currentLabels, RECENTLY_CREATED_LABEL)

\* An item:updated event with the intent "item_updated" found an unlabelled
\* item created 30 hours ago and left it with "recently updated" alone
OldItemGotUpdatedAlone ==
  /\ VerifiedEvent("w1")
  /\ wh["w1"].req.payload.event_name = "item:updated"
  /\ wh["w1"].req.payload.update_intent = Intent("item_updated")
  /\ WebhookCompleted("w1")
  /\ wh["w1"].currentLabels = <<>>
  /\ tasks[wh["w1"].taskId].addedAt = Iso(T0 - 30 * HourMs)
  /\ tasks[wh["w1"].taskId].labels = <<RECENTLY_UPDATED_LABEL>>

\* C10: for an item:updated event whose update intent is present and is not
\* "item_updated", and for any event name other than item:added and
\* item:updated, handling makes no change: no label is created and no item
\* label list is written.
OtherEventsChangeNothing ==
  \A w \in Webhooks :
    /\ VerifiedEvent(w)
    /\ \/ /\ wh[w].req.payload.event_name = "item:updated"
          /\ wh[w].req.payload.update_intent # NoIntent
          /\ wh[w].req.payload.update_intent # Intent("item_updated")
       \/ wh[w].req.payload.event_name \notin {"item:added", "item:updated"}
    => \A i \in 1..Len(wh[w].calls) : wh[w].calls[i].op \notin {"addLabel", "updateTask"}

-----------------------------------------------------------------------------
(* The label directory, acknowledgement and failures *)

\* Request w found no recency label in the store and has created both
CreatedBoth(w) ==
  \A name \in RecencyNames :
    \E i \in 1..Len(wh[w].calls) :
      wh[w].calls[i] = Call("addLabel", "", <<name>>, TRUE)

\* Request w fetches the label collection in this step
WebhookFetchesLabels(w) == wh[w].pc = "getLabels" /\ wh'[w].pc # "getLabels"

\* C11: when the store has no labels, the first resolve of the label
\* directory creates both recency labels, and a second resolve in the same
\* run (the server process) reuses the cached ids: no label fetch is issued
\* once that first resolve has completed.
ResolveCachedForRun ==
  [][\A w \in Webhooks :
       /\ CreatedBoth(w) => RecencyNames \subseteq Range(labels)
       /\ WebhookFetchesLabels(w) => \A v \in Webhooks \ {w} : ~CreatedBoth(v)]_vars

\* C12: once the payload's signature is verified and its body parses as JSON,
\* the request is answered with HTTP 200 whatever becomes of the labeling:
\* store call failures, an uninitialised API client or a parsed payload
\* lacking the expected fields never produce another status.
AcknowledgedOnceParsed ==
  \A w \in Webhooks :
    /\ wh[w].pc = "responded"
    /\ wh[w].req.route = "/webhook"
    /\ wh[w].req.signature = "match"
    /\ wh[w].req.json
    => wh[w].status = 200

\* C13: a POST /webhook request whose signature header is missing or does not
\* match the HMAC of the body is answered 401 and no store operation (label
\* fetch, label create, item fetch, item update) is performed for it.
UnverifiedNeverArrives ==
  \A w \in Webhooks :
    /\ wh[w].pc # "idle"
    /\ wh[w].req.route = "/webhook"
    /\ wh[w].req.signature # "match"
    => /\ wh[w].pc = "responded"
       /\ wh[w].status = 401
       /\ wh[w].calls = <<>>

\* An item:added event with a signature that does not match has been answered
UnverifiedEventAnswered ==
  /\ wh["w1"].pc = "responded"
  /\ wh["w1"].req.route = "/webhook"
  /\ wh["w1"].req.signature = "mismatch"
  /\ wh["w1"].req.json
  /\ wh["w1"].req.payload.event_name = "item:added"
  /\ wh["w1"].req.payload.has_event_data
  /\ wh["w1"].status = 401

\* The ids of the items a sweep decided to update, in the order of its queue
DecidedIds ==
  IF sw.variant = "maintainer"
  THEN LET d == MtDecide(sw) IN [i \in 1..Len(d) |-> d[i].id]
  ELSE LET d == CbDecide(sw) IN [i \in 1..Len(d) |-> d[i].task.id]

\* The ids of the items still in the queue of the update loop
PendingIds ==
  [i \in 1..Len(sw.tasksToUpdate) |->
     IF sw.variant = "maintainer" THEN sw.tasksToUpdate[i].id
     ELSE sw.tasksToUpdate[i].task.id]

\* The ids a sweep has handed to updateTask so far, in order
AttemptedIds ==
  LET u == SelectSeq(sw.calls, LAMBDA c : c.op = "updateTask")
  IN  [i \in 1..Len(u) |-> u[i].id]

\* C14: in a sweep, the failure of one item's label write does not abort the
\* sweep: every other item queued for update is still attempted exactly once
\* in the same invocation, and the failed item is not retried in it.
FailedWriteDoesNotAbort ==
  /\ sw.pc = "update" => AttemptedIds \o PendingIds = DecidedIds
  /\ sw.pc = "delay" => AttemptedIds \o Tail(PendingIds) = DecidedIds
  /\ sw.pc = "exited" /\ sw.exitCode = 0 => AttemptedIds = DecidedIds
  /\ sw.pc = "exited" /\ (\E i \in 1..Len(sw.calls) : sw.calls[i].op = "updateTask")
       => sw.exitCode = 0
  /\ \A i, j \in 1..Len(AttemptedIds) : AttemptedIds[i] = AttemptedIds[j] => i = j

\* A sweep has ended after the write of its first item failed and the write
\* of its second item went through
SecondWrittenAfterFailure ==
  /\ sw.pc = "exited"
  /\ \E i, j \in 1..Len(sw.calls) :
       /\ i < j
       /\ sw.calls[i].op = "updateTask" /\ ~sw.calls[i].ok
       /\ sw.calls[j].op = "updateTask" /\ sw.calls[j].ok
       /\ sw.calls[i].id # sw.calls[j].id

\* A store call of the sweep with one of these names failed
SweepCallFailed(ops) ==
  \E i \in 1..Len(sw.calls) : sw.calls[i].op \in ops /\ ~sw.calls[i].ok

\* C15 as stated: the sweep exits non-zero only on an unrecoverable setup
\* failure, which is missing credentials or a failure of the initial
\* label-directory resolution, and exits zero otherwise, however many item
\* writes failed.
ExitNonZeroOnlyOnResolveFailure ==
  sw.pc = "exited" =>
    (sw.exitCode # 0 <=> ~env.TODOIST_TOKEN \/ SweepCallFailed({"getLabels", "addLabel"}))

\* C15 (amended): the sweep exits non-zero (1) only on an unrecoverable setup
\* failure, which is missing credentials, a failure of the initial
\* label-directory resolution or a failure of a candidate fetch that follows
\* it, and exits zero otherwise, however many item writes failed.
ExitNonZeroOnlyOnSetupFailure ==
  sw.pc = "exited" =>
    /\ sw.exitCode \in {0, 1}
    /\ sw.exitCode # 0 <=>
         \/ ~env.TODOIST_TOKEN
         \/ SweepCallFailed({"getLabels", "addLabel", "getTasks", "getTasksByFilter"})

\* A sweep has ended with exit code 0 although every write it tried failed
ExitedZeroWithFailedWrites ==
  /\ sw.pc = "exited"
  /\ sw.exitCode = 0
  /\ SweepCallFailed({"updateTask"})
  /\ sw.updatedCount = 0

RECURSIVE IsSubseq(_, _)
\* s is t with some of its entries left out
IsSubseq(s, t) ==
  IF s = <<>> THEN TRUE
  ELSE IF t = <<>> THEN FALSE
  ELSE IF Head(s) = Head(t) THEN IsSubseq(Tail(s), Tail(t))
  ELSE IsSubseq(s, Tail(t))

\* C16: the maintainer (cleanup-only sweep) never adds a label and never
\* creates a label record: every label list it writes is the list it read for
\* that item with one or more recency-label occurrences removed, and it issues
\* no label-create call.
MaintainerOnlyRemoves ==
  sw.variant = "maintainer" =>
    \A i \in 1..Len(sw.calls) :
      /\ sw.calls[i].op # "addLabel"
      /\ sw.calls[i].op = "updateTask" =>
           \A t \in SweepUpdated(i) :
             /\ IsSubseq(sw.calls[i].labels, t.labels)
             /\ Len(sw.calls[i].labels) < Len(t.labels)
             /\ SelectSeqBy(sw.calls[i].labels, OtherNames) = SelectSeqBy(t.labels, OtherNames)
             /\ sw.calls[i].ok /\ sw.pc = "delay" /\ i = Len(sw.calls)
                  => tasks[t.id].labels = sw.calls[i].labels

\* The maintainer has taken "recently created" off an item that was updated
\* an hour ago and bore no "recently updated", and has added nothing
MaintainerRemovedCreatedOnly ==
  /\ sw.variant = "maintainer"
  /\ sw.pc = "delay"
  /\ LastCall(sw, "updateTask")
  /\ \E t \in Checked :
       /\ t.id = sw.calls[Len(sw.calls)].id
       /\ WantUpdated(t, sw.now)
       /\ t.labels = <<RECENTLY_CREATED_LABEL, "work">>
       /\ tasks[t.id].labels = <<"work">>

\* The label records of a name that the store calls in a log created
Creations(calls, name) ==
  Cardinality({i \in 1..Len(calls) : calls[i] = Call("addLabel", "", <<name>>, TRUE)})

\* The invocations (requests and the sweep) that created a record of a name
Creators(name) ==
  Cardinality({w \in Webhooks : Creations(wh[w].calls, name) > 0})
    + (IF Creations(sw.calls, name) > 0 THEN 1 ELSE 0)

\* C17 as stated: at most one label record per recency name exists in the
\* store after any interleaving of concurrent label-directory resolutions.
OneRecordPerName ==
  \A name \in RecencyNames : Count(labels, name) <= 1

\* C17 (amended): after any interleaving of concurrent label-directory
\* resolutions, each resolution has created at most one record per recency
\* name, and that after its own label fetch; a name has more than one record
\* only if as many overlapping resolutions each created one (each fetched
\* before the other's create).
OneRecordPerNameAndResolution ==
  \A name \in RecencyNames :
    /\ Count(labels, name) <= 1 \/ Count(labels, name) = Creators(name)
    /\ Creations(sw.calls, name) <= 1
    /\ Creations(sw.calls, name) = 1 => sw.calls[1] = Call("getLabels", "", <<>>, TRUE)
    /\ \A w \in Webhooks :
         /\ Creations(wh[w].calls, name) <= 1
         /\ Creations(wh[w].calls, name) = 1
              => wh[w].calls[1] = Call("getLabels", "", <<>>, TRUE)

\* Two requests resolved the label directory at the same time and each
\* created a record of "recently created"
TwoRecordsOfOneName ==
  /\ Count(labels, RECENTLY_CREATED_LABEL) = 2
  /\ \A w \in Webhooks : Creations(wh[w].calls, RECENTLY_CREATED_LABEL) = 1

-----------------------------------------------------------------------------
(* A store shared with other writers *)

\* The list that the sweep's write of this step puts on an item
SweepWritten == sw'.calls[Len(sw'.calls)]

SweepRemoved(id, name) ==
  /\ \E t \in Checked : t.id = id /\ Includes(t.labels, name)
  /\ \E i \in 1..Len(sw.calls) :
       /\ sw.calls[i] = Call("updateTask", id, sw.calls[i].labels, TRUE)
       /\ ~Includes(sw.calls[i].labels, name)

\* A recency label that the sweep removed from an item is on the item again
\* after this step
Reappears(id, name) ==
  /\ SweepRemoved(id, name)
  /\ ~Includes(tasks[id].labels, name)
  /\ Includes(tasks'[id].labels, name)

\* C19 as stated: once a sweep has removed a recency label from an item that
\* is past the threshold, the label reappears on the item, under any
\* interleaving with requests, only through the handling of a qualifying
\* event for that same label (item:added for "recently created",
\* item:updated for "recently updated").
RemovedLabelBackOnlyByItsEvent ==
  [][
      \A id \in TaskIds :
        \A name \in RecencyNames :
          Reappears(id, name) =>
            \E w \in Webhooks :
              /\ WebhookWrites(w)
              /\ wh[w].taskId = id
              /\ wh[w].label = name
    ]_vars

\* C19 (amended): once a sweep has removed a recency label from an item, the
\* label reappears on the item only through the write of a request for that
\* item, whose event either qualifies for that same label or whose fetch of
\* the item preceded the removal and so still showed the label.
RemovedLabelBackOnlyByRequest ==
  [][
      \A id \in TaskIds :
        \A name \in RecencyNames :
          Reappears(id, name) =>
            \E w \in Webhooks :
              /\ WebhookWrites(w)
              /\ wh[w].taskId = id
              /\ wh[w].label = name \/ Includes(wh[w].currentLabels, name)
    ]_vars

\* The sweep removed "recently created" from the item and it is back: a
\* request for item:updated had fetched the list before and wrote it after
RemovedCreatedLabelBack ==
  /\ SweepRemoved("t1", RECENTLY_CREATED_LABEL)
  /\ Includes(tasks["t1"].labels, RECENTLY_CREATED_LABEL)
  /\ \E w \in Webhooks :
       /\ wh[w].taskId = "t1"
       /\ wh[w].label = RECENTLY_UPDATED_LABEL
       /\ Includes(wh[w].currentLabels, RECENTLY_CREATED_LABEL)
       /\ LastCall(wh[w], "updateTask")
  /\ \A w \in Webhooks : wh[w].label # RECENTLY_CREATED_LABEL

-----------------------------------------------------------------------------
(* Convergence under repeated sweeps *)

\* The item holds a recency label that its timestamps do not justify now
Unjustified(id, name) ==
  /\ Includes(tasks[id].labels, name)
  /\ IF name = RECENTLY_CREATED_LABEL THEN ~WantCreated(tasks[id], clock)
     ELSE ~WantUpdated(tasks[id], clock)

\* C20: if an item holds a recency label that its timestamps no longer
\* justify (possibly several times), no event arrives for it, sweeps keep
\* being invoked and the store calls succeed from some point on, then
\* eventually the item's label list holds no occurrence of the label and
\* stays that way, whatever writes failed in earlier sweeps.
StaleLabelEventuallyGone ==
  \A id \in TaskIds :
    \A name \in RecencyNames :
      Unjustified(id, name) ~> [](~Includes(tasks[id].labels, name))

-----------------------------------------------------------------------------
(* Duplicates, malformed timestamps and the discipline of the writes *)

\* The occurrences of a label on an item before the services first saw it
InitialCount(id, name) ==
  Count(IF id = "t1" THEN DuplicateLabels ELSE SecondTask.labels, name)

\* C21: under any interleaving of requests (the same event delivered twice
\* among them) and a sweep, each recency label occurs in an item's stored list
\* at most max(1, its occurrences in the initial list) times.
NoNewDuplicates ==
  \A id \in TaskIds :
    \A name \in RecencyNames :
      Count(tasks[id].labels, name)
        <= (IF InitialCount(id, name) > 1 THEN InitialCount(id, name) ELSE 1)

\* Two requests for the item that held "recently created" twice have both
\* written "recently updated", and the item holds it once and the other
\* label no more than before
SameEventTwiceWritten ==
  /\ \A w \in Webhooks :
       /\ wh[w].taskId = "t1"
       /\ wh[w].label = RECENTLY_UPDATED_LABEL
       /\ LastCall(wh[w], "updateTask")
  /\ wh["w1"].req = wh["w2"].req
  /\ Count(tasks["t1"].labels, RECENTLY_UPDATED_LABEL) = 1

\* The creation or modification timestamp of an item is missing or does not
\* parse
Malformed(task) == task.addedAt.k # "iso" \/ task.updatedAt.k # "iso"

\* C22: an item whose creation (or modification) timestamp is missing or
\* cannot be parsed is skipped by the sweep: no label write is issued for it
\* and its label list is left as it was, while the other items of the batch
\* are still processed.
MalformedItemSkipped ==
  \A t \in Checked :
    Malformed(t) =>
      /\ \A i \in 1..Len(sw.calls) :
           sw.calls[i].op = "updateTask" => sw.calls[i].id # t.id
      /\ tasks[t.id].labels = t.labels

\* A query of the sweep returns in this step
QueryReturns(pc) ==
  /\ sw.pc = pc
  /\ Len(sw'.calls) = Len(sw.calls) + 1
  /\ sw'.calls[Len(sw'.calls)].ok

\* The snapshots of an item in a list of query results
Snapshots(list, id) == {t \in Range(list) : t.id = id}

\* The snapshot of an item that the last of the sweep's queries containing it
\* returned, the query of this step being the last one
LastSnapshots(returned, earlier, before, id) ==
  IF Snapshots(returned, id) # {} THEN Snapshots(returned, id)
  ELSE IF Snapshots(earlier, id) # {} THEN Snapshots(earlier, id)
  ELSE Snapshots(before, id)

\* No item occurs twice among the entries of a list
OncePerId(list, IdOf(_)) ==
  \A i, j \in 1..Len(list) : IdOf(list[i]) = IdOf(list[j]) => i = j

TaskId(t) == t.id
EntryId(e) == IF sw.variant = "combined" THEN e.task.id ELSE e.id
CallId(c) == IF c.op = "updateTask" THEN c.id ELSE c

\* C23: a candidate item returned by more than one query of a sweep (by
\* "recently created", by "recently updated", by the lookback filter) is
\* evaluated once, gets at most one label write in the sweep, and that from
\* the snapshot which the last query containing it returned.
CandidateOnceFromLastSnapshot ==
  [][
      /\ OncePerId(sw'.tasksToCheck, TaskId)
      /\ OncePerId(sw'.tasksToUpdate, EntryId)
      /\ OncePerId(SelectSeq(sw'.calls, LAMBDA c : c.op = "updateTask"), CallId)
      /\ QueryReturns("getUpdatedTasks") /\ sw.variant = "maintainer" =>
           \A id \in TaskIds :
             Snapshots(sw'.tasksToCheck, id)
               = LastSnapshots(GetTasksByLabel(tasks, RECENTLY_UPDATED_LABEL),
                               sw.tasksToCheck, <<>>, id)
      /\ QueryReturns("getRecentTasks") =>
           \A id \in TaskIds :
             Snapshots(sw'.tasksToCheck, id) # {} =>
               Snapshots(sw'.tasksToCheck, id)
                 = LastSnapshots(GetTasksByFilter(tasks, clock),
                                 sw.updatedTasks, sw.createdTasks, id)
    ]_vars

\* The place of an item among the candidates of the sweep
PlaceOf(id) == CHOOSE i \in 1..Len(sw.tasksToCheck) : sw.tasksToCheck[i].id = id

\* C24: in the update loop of a sweep the item writes are issued one after
\* another in queue order, and a rate-limit delay step lies between every two
\* consecutive write attempts, also when the earlier attempt failed.
DelayBetweenWriteAttempts ==
  \A i, j \in 1..Len(sw.calls) :
    (i < j /\ sw.calls[i].op = "updateTask" /\ sw.calls[j].op = "updateTask") =>
      /\ PlaceOf(sw.calls[i].id) < PlaceOf(sw.calls[j].id)
      /\ \E k \in (i + 1)..(j - 1) : sw.calls[k].op = "delay"

\* Call j of a log is an item write that follows a read of the items by the
\* same invocation, with no other write of the invocation that the store took
\* in between
ReadJustBefore(calls, j, reads) ==
  \E i \in 1..(j - 1) :
    /\ calls[i].op \in reads
    /\ calls[i].ok
    /\ \A k \in (i + 1)..(j - 1) :
         ~(calls[k].op \in {"updateTask", "addLabel"} /\ calls[k].ok)

\* C25: every label-list write of either path is computed from a read of the
\* item's label list by the same invocation, with no other store write of
\* that invocation between the read and the write; the list a request writes
\* is derived from its fresh fetch of the item.
ReadImmediatelyBeforeWrite ==
  /\ \A j \in 1..Len(sw.calls) :
       sw.calls[j].op = "updateTask" =>
         /\ \E t \in Checked : t.id = sw.calls[j].id
         /\ ReadJustBefore(sw.calls, j, {"getTasks", "getTasksByFilter"})
  /\ \A w \in Webhooks :
       \A j \in 1..Len(wh[w].calls) :
         wh[w].calls[j].op = "updateTask" =>
           /\ ReadJustBefore(wh[w].calls, j, {"getTask"})
           /\ wh[w].calls[j].id = wh[w].taskId
           /\ wh[w].calls[j].labels = Append(wh[w].currentLabels, wh[w].label)

\* The list a sweep computes for an item from the snapshot it fetched
SweepComputes(t) ==
  IF sw.variant = "combined" THEN CbWrittenLabels(CbInfo(t, RecentThreshold(sw.now)))
  ELSE MtNewLabels(t, RecentThreshold(sw.now), sw.createdFound, sw.updatedFound)

\* C25 (amended): every label-list write is computed from a read of the item
\* by the same invocation. A request writes right after its fresh fetch of
\* the item, with no store write of its own in between. A sweep reads all its
\* candidates before its first write, so between the read of an item and its
\* write lie only the sweep's writes of other items.
WriteComputedFromOwnRead ==
  /\ \A j \in 1..Len(sw.calls) :
       sw.calls[j].op = "updateTask" =>
         /\ \E t \in Checked : t.id = sw.calls[j].id /\ sw.calls[j].labels = SweepComputes(t)
         /\ \E i \in 1..(j - 1) :
              sw.calls[i].op \in {"getTasks", "getTasksByFilter"} /\ sw.calls[i].ok
         /\ \A k \in 1..Len(sw.calls) :
              /\ sw.calls[k].op \in {"getLabels", "addLabel", "getTasks", "getTasksByFilter"}
                   => k < j
              /\ (k # j /\ sw.calls[k].op = "updateTask") => sw.calls[k].id # sw.calls[j].id
  /\ \A w \in Webhooks :
       \A j \in 1..Len(wh[w].calls) :
         wh[w].calls[j].op = "updateTask" =>
           /\ ReadJustBefore(wh[w].calls, j, {"getTask"})
           /\ wh[w].calls[j].id = wh[w].taskId
           /\ wh[w].calls[j].labels = Append(wh[w].currentLabels, wh[w].label)

\* A sweep has written two items: the second write follows the first, both
\* computed from the reads before the first
SecondItemWrittenAfterFirst ==
  \E i, j \in 1..Len(sw.calls) :
    /\ i < j
    /\ sw.calls[i].op = "updateTask" /\ sw.calls[i].ok
    /\ sw.calls[j].op = "updateTask" /\ sw.calls[j].ok
    /\ sw.calls[i].id # sw.calls[j].id

\* Two label lists hold the same names, each as often
SameNames(a, b) == \A l \in LabelNames : Count(a, l) = Count(b, l)

\* C26: neither a request nor a sweep issues an item label update whose new
\* list equals, as a multiset of names, the list it read for the item.
NoNoOpWrites ==
  /\ \A j \in 1..Len(sw.calls) :
       sw.calls[j].op = "updateTask" =>
         \A t \in Checked : t.id = sw.calls[j].id => ~SameNames(sw.calls[j].labels, t.labels)
  /\ \A w \in Webhooks :
       \A j \in 1..Len(wh[w].calls) :
         wh[w].calls[j].op = "updateTask" =>
           ~SameNames(wh[w].calls[j].labels, wh[w].currentLabels)

\* A sweep has run to its end: it wrote one of its candidates and left
\* another, for which it computes the list it read, without a write
SweepWroteOneLeftOther ==
  /\ sw.pc = "exited"
  /\ AllOk(sw)
  /\ \E t, u \in Checked :
       /\ t.id # u.id
       /\ SameNames(SweepComputes(u), u.labels)
       /\ \E j \in 1..Len(sw.calls) : sw.calls[j].op = "updateTask" /\ sw.calls[j].id = t.id
       /\ \A j \in 1..Len(sw.calls) : sw.calls[j].op = "updateTask" => sw.calls[j].id # u.id

====
